---- MODULE Spec2Model ----
(***************************************************************************)
(* Model of flask_mongoengine/__init__.py: the MongoEngine extension       *)
(* registrar (constructor, init_app, connection lookup) and the query      *)
(* helpers of BaseQuerySet / Document (get_or_404, first_or_404,           *)
(* paginate_field).                                                        *)
(***************************************************************************)
EXTENDS Integers, Sequences, FiniteSets, TLC

\* ------------------------------------------------------------------ bounds
\* Largest number of documents a query matches.
MaxDocs == 2
\* Largest length of the paginated list field.
MaxLen == 2
\* Largest explicit total / "<field>_count" value tried.
MaxTotal == 2

\* ------------------------------------------------------------ value sets
\* Python's None, wherever a reference or a string may be None.
NONE == "<None>"
\* An object that is not a Flask instance (isinstance(app, Flask) is false).
NotFlask == "<object>"
\* The empty mapping {} passed as a config.
EmptyCfg == "{}"

\* The Flask application objects of the process.
Apps == {"app1", "app2"}
\* The MongoEngine extension objects of the process.
Exts == {"ext1", "ext2"}
\* What a caller may pass as `app`.
AppArgs == Apps \cup {NONE, NotFlask}
\* app.config of a Flask application: a non-empty mapping owned by that app.
AppConfig(a) == "config_of_" \o a
\* What a caller may pass as `config`.
CfgArgs == {NONE, EmptyCfg, "cfgCall"}
\* What a caller may pass as `config` to the constructor.
CtorCfgArgs == {NONE, EmptyCfg, "cfgCtor"}
\* Python truthiness of a config value: None and {} are falsy.
CfgTruthy(c) == c \notin {NONE, EmptyCfg}

\* The connection set returned by one create_connections call.
NoConn == [cfg |-> NONE]
\* The dict stored under app.extensions["mongoengine"][ext].
NoEntry == [app |-> NONE, conn |-> NoConn]

VARIABLES
    life,         \* ext -> "new" (not yet constructed) | "live"
    ctor_config,  \* ext -> the config argument given to __init__ (history)
    ext_app,      \* ext -> self.app
    ext_config,   \* ext -> self.config
    has_me,       \* app -> "mongoengine" in app.extensions
    json_patched, \* app -> override_json_encoder(app) has run
    registry,     \* app -> ext -> app.extensions["mongoengine"][ext], or NoEntry
    established,  \* app -> ext -> connection set create_connections returned to init_app (history)
    nconn,        \* number of create_connections calls that returned
    last,         \* the last registrar call and its outcome
    qin,          \* the query set and argument a query helper is called with
    qlast         \* the query-helper call made on qin and its outcome

regvars == <<life, ctor_config, ext_app, ext_config, has_me, json_patched,
             registry, established, nconn, last>>
vars == <<life, ctor_config, ext_app, ext_config, has_me, json_patched,
          registry, established, nconn, last, qin, qlast>>

\* ------------------------------------------------------- registrar state
\* The mutable objects init_app touches, as one value.
State ==
    [ext_app |-> ext_app, ext_config |-> ext_config, has_me |-> has_me,
     json_patched |-> json_patched, registry |-> registry,
     established |-> established, nconn |-> nconn]

\* An outcome of init_app: the state it leaves and how it ended.
Outcome(S, result) == [S |-> S, result |-> result]

\* Line 104: `not app or not isinstance(app, Flask)` is false.
ValidApp(a) == a # NONE /\ a \in Apps

\* Line 107: self.app = app
SetApp(S, e, a) == [S EXCEPT !.ext_app[e] = a]

\* Lines 109-115: make sure app.extensions["mongoengine"] exists, and
\* install the JSON encoder.
EnsureRegistry(S, a) ==
    [S EXCEPT !.json_patched[a] = TRUE, !.has_me[a] = TRUE]

\* Variant of line 117 with the membership test lost.
AlreadyInitialized_never(S, e, a) == FALSE
\* Line 117: self in app.extensions["mongoengine"] (keyed by object identity).
AlreadyInitialized(S, e, a) == S.registry[a][e] # NoEntry

\* Lines 122-128: the config stored on the extension after resolution.
ResolveConfig(selfcfg, cfg, appcfg) ==
    LET c1 == IF CfgTruthy(cfg) THEN cfg ELSE selfcfg
    IN  IF ~CfgTruthy(c1) THEN appcfg ELSE c1

\* Line 131: create_connections(config) either raises a store error or
\* returns the connection set of that config.
create_connections(config, fail) ==
    IF fail THEN [failed |-> TRUE, conn |-> NoConn]
    ELSE [failed |-> FALSE, conn |-> [cfg |-> config]]

\* Variant of lines 135-136 that stores one state per application instead
\* of one per extension: app.extensions["mongoengine"] = {self: s}.
Register_replacing(S, e, a, conn) ==
    [S EXCEPT !.registry[a] =
                  [x \in Exts |-> IF x = e THEN [app |-> a, conn |-> conn] ELSE NoEntry]]
\* Lines 135-136: app.extensions["mongoengine"][self] = {"app": app, "conn": connections}
Register(S, e, a, conn) ==
    [S EXCEPT !.registry[a][e] = [app |-> a, conn |-> conn]]

\* Variant of lines 122-136 that registers the extension before connecting.
init_app_connect_register_first(S, e, a, cfg, fail) ==
    LET used == ResolveConfig(S.ext_config[e], cfg, AppConfig(a))
        s3   == [S EXCEPT !.ext_config[e] = used]
        c    == create_connections(used, fail)
    IN  IF c.failed
        THEN Outcome([s3 EXCEPT !.registry[a][e] = [app |-> a, conn |-> NoConn]],
                     "StoreError")
        ELSE Outcome(Register([s3 EXCEPT !.nconn = @ + 1,
                                        !.established[a][e] = c.conn],
                              e, a, c.conn), "ok")
\* Lines 122-136: resolve the config, connect, register.
init_app_connect(S, e, a, cfg, fail) ==
    LET used == ResolveConfig(S.ext_config[e], cfg, AppConfig(a))
        s3   == [S EXCEPT !.ext_config[e] = used]
        c    == create_connections(used, fail)
    IN  IF c.failed
        THEN Outcome(s3, "StoreError")
        ELSE Outcome(Register([s3 EXCEPT !.nconn = @ + 1,
                                        !.established[a][e] = c.conn],
                              e, a, c.conn), "ok")

\* Variant of lines 107-136 that connects before the duplicate check.
init_app_bind_connect_first(S, e, a, cfg, fail) ==
    LET s2 == EnsureRegistry(SetApp(S, e, a), a)
        r  == init_app_connect(s2, e, a, cfg, fail)
    IN  IF AlreadyInitialized(s2, e, a) /\ r.result = "ok"
        THEN Outcome([r.S EXCEPT !.registry = s2.registry,
                                 !.established = s2.established], "ValueError")
        ELSE r
\* Lines 107-136: init_app once the application argument is accepted.
init_app_bind(S, e, a, cfg, fail) ==
    LET s2 == EnsureRegistry(SetApp(S, e, a), a)
    IN  IF AlreadyInitialized(s2, e, a)
        THEN Outcome(s2, "ValueError")
        ELSE init_app_connect(s2, e, a, cfg, fail)

\* Variant of lines 103-107 that assigns self.app before validating app.
init_app_assign_first(S, e, a, cfg, fail) ==
    IF ~ValidApp(a)
    THEN Outcome(SetApp(S, e, a), "TypeError")
    ELSE init_app_bind(S, e, a, cfg, fail)
\* Lines 103-136: MongoEngine.init_app(self, app, config).
init_app(S, e, a, cfg, fail) ==
    IF ~ValidApp(a)
    THEN Outcome(S, "TypeError")
    ELSE init_app_bind(S, e, a, cfg, fail)

\* Variant of line 144 that reads the registry of self.app instead of the
\* current application's.
connection_of_owner(S, e, cur) ==
    IF cur = NONE THEN [result |-> "RuntimeError", conn |-> NoConn]
    ELSE IF S.ext_app[e] \notin Apps \/ S.registry[S.ext_app[e]][e] = NoEntry
    THEN [result |-> "KeyError", conn |-> NoConn]
    ELSE [result |-> "ok", conn |-> S.registry[S.ext_app[e]][e].conn]
\* Lines 138-144: the `connection` property, read while `cur` is the
\* current application (NONE: no application context is active).
connection(S, e, cur) ==
    IF cur = NONE THEN [result |-> "RuntimeError", conn |-> NoConn]
    ELSE IF ~S.has_me[cur] \/ S.registry[cur][e] = NoEntry
    THEN [result |-> "KeyError", conn |-> NoConn]
    ELSE [result |-> "ok", conn |-> S.registry[cur][e].conn]

\* ------------------------------------------------------ registrar actions
Call(op, e, a, result, conn) ==
    [op |-> op, ext |-> e, app |-> a, result |-> result, conn |-> conn]

\* Write an init_app outcome back to the program state.
Apply(r) ==
    /\ ext_app' = r.S.ext_app
    /\ ext_config' = r.S.ext_config
    /\ has_me' = r.S.has_me
    /\ json_patched' = r.S.json_patched
    /\ registry' = r.S.registry
    /\ established' = r.S.established
    /\ nconn' = r.S.nconn

\* Lines 92-101: MongoEngine(app, config).  When init_app raises inside the
\* constructor no extension object is returned: the slot stays "new", while
\* what init_app did to the application stays done.
Construct(e, a, cfg) ==
    /\ life[e] = "new"
    /\ LET s0 == [State EXCEPT !.ext_app[e] = NONE, !.ext_config[e] = cfg]
       IN  IF a = NONE
           THEN /\ Apply(Outcome(s0, "ok"))
                /\ life' = [life EXCEPT ![e] = "live"]
                /\ ctor_config' = [ctor_config EXCEPT ![e] = cfg]
                /\ last' = Call("__init__", e, a, "ok", NoConn)
           ELSE \E fail \in BOOLEAN :
                  LET r == init_app(s0, e, a, cfg, fail)
                  IN  IF r.result = "ok"
                      THEN /\ Apply(r)
                           /\ life' = [life EXCEPT ![e] = "live"]
                           /\ ctor_config' = [ctor_config EXCEPT ![e] = cfg]
                           /\ last' = Call("__init__", e, a, "ok", NoConn)
                      ELSE /\ Apply([r EXCEPT !.S.ext_app[e] = NONE,
                                              !.S.ext_config[e] = NONE])
                           /\ UNCHANGED <<life, ctor_config>>
                           /\ last' = Call("__init__", e, a, r.result, NoConn)
    /\ UNCHANGED <<qin, qlast>>

\* Lines 103-136: ext.init_app(app, config) on a constructed extension.
InitApp(e, a, cfg) ==
    /\ life[e] = "live"
    /\ \E fail \in BOOLEAN :
         LET r == init_app(State, e, a, cfg, fail)
         IN  /\ Apply(r)
             /\ last' = Call("init_app", e, a, r.result, NoConn)
    /\ UNCHANGED <<life, ctor_config, qin, qlast>>

\* Lines 138-144: ext.connection with `cur` as flask.current_app.
Connection(e, cur) ==
    /\ life[e] = "live"
    /\ LET r == connection(State, e, cur)
       IN  last' = Call("connection", e, cur, r.result, r.conn)
    /\ UNCHANGED <<life, ctor_config, ext_app, ext_config, has_me, json_patched,
                   registry, established, nconn, qin, qlast>>

\* ---------------------------------------------------------- query helpers
\* Python values of the `total` argument and of a "<field>_count" attribute:
\* None, a string (v is its length) or an integer (v is its value).
NoneV == [t |-> "None", v |-> 0]
\* The "" that getattr(item, field_name + "_count", "") returns when the
\* attribute is missing.
MissingV == [t |-> "str", v |-> 0]
IntV(n) == [t |-> "int", v |-> n]
\* Python truthiness: None, "" and 0 are falsy.
Truthy(x) == x.t \in {"int", "str"} /\ x.v # 0
\* Python's `a or b`.
PyOr(a, b) == IF Truthy(a) THEN a ELSE b

\* A document: its "<field>_count" attribute (or MissingV) and the length of
\* its list field.
Docs ==
    [isdoc : {TRUE},
     count : {MissingV} \cup {IntV(n) : n \in 0..MaxTotal},
     len : 0..MaxLen]
\* The None that first() returns on an empty query.
NoDoc == [isdoc |-> FALSE, count |-> NoneV, len |-> 0]
\* Truthiness of what first() returns: a document is truthy, None is not.
DocTruthy(d) == d.isdoc

SeqsUpTo(S, n) == UNION {[1..k -> S] : k \in 0..n}
\* A query set: the documents it matches, and the error the store raises
\* when it is run ("none": no error).
Queries == [docs : SeqsUpTo(Docs, MaxDocs), err : {"none", "OperationError"}]
EmptyQuery == [docs |-> <<>>, err |-> "none"]

\* What a caller may pass as _message_404.
MsgArgs == {NONE, "", "gone"}
MsgTruthy(m) == m \notin {NONE, ""}
\* What a caller may pass as total.
TotalArgs == {NoneV} \cup {IntV(n) : n \in 0..MaxTotal}

\* How a helper ends.
Return(d) == [kind |-> "return", doc |-> d, exc |-> NONE, msg |-> NONE, total |-> NoneV]
Raise(exc) == [kind |-> "raise", doc |-> NoDoc, exc |-> exc, msg |-> NONE, total |-> NoneV]
\* flask.abort(404, message) / flask.abort(404): msg is the description
\* handed to abort, NONE when none is handed.
Abort(msg) == [kind |-> "abort404", doc |-> NoDoc, exc |-> NONE, msg |-> msg, total |-> NoneV]
\* A ListFieldPagination built with total=t.
ReturnPagination(t) ==
    [kind |-> "pagination", doc |-> NoDoc, exc |-> NONE, msg |-> NONE, total |-> t]

\* Line 168 / 196: QuerySet.get as the helpers call it.
QGet(q) ==
    IF q.err # "none" THEN Raise(q.err)
    ELSE IF Len(q.docs) = 0 THEN Raise("DoesNotExist")
    ELSE IF Len(q.docs) = 1 THEN Return(q.docs[1])
    ELSE Raise("MultipleObjectsReturned")

\* Line 181: QuerySet.first as first_or_404 calls it.
QFirst(q) ==
    IF q.err # "none" THEN Raise(q.err)
    ELSE IF Len(q.docs) = 0 THEN Return(NoDoc)
    ELSE Return(q.docs[1])

\* Variant of line 155 that drops the message.
abort_404_without_message(msg) == Abort(NONE)
\* Lines 150-155: BaseQuerySet._abort_404.
abort_404(msg) == IF MsgTruthy(msg) THEN Abort(msg) ELSE Abort(NONE)

\* Variant of line 169 that catches every exception of get.
get_or_404_catch_all(q, msg) ==
    LET g == QGet(q)
    IN  IF g.kind = "raise" THEN abort_404(msg) ELSE g
\* Lines 157-170: BaseQuerySet.get_or_404.
get_or_404(q, msg) ==
    LET g == QGet(q)
    IN  IF g.kind = "raise" /\ g.exc = "DoesNotExist" THEN abort_404(msg) ELSE g

\* Lines 172-181: BaseQuerySet.first_or_404.
first_or_404(q, msg) ==
    LET f == QFirst(q)
    IN  IF f.kind = "raise" THEN f
        ELSE IF DocTruthy(f.doc) THEN f
        ELSE abort_404(msg)

\* Lines 197-198 / 213-214: total = total or count or len(getattr(item, field_name)).
resolve_total(item, total) ==
    PyOr(PyOr(total, item.count), IntV(item.len))

\* Lines 190-201: BaseQuerySet.paginate_field.
paginate_field(q, total) ==
    LET g == QGet(q)
    IN  IF g.kind = "raise" THEN g
        ELSE ReturnPagination(resolve_total(g.doc, total))

\* Lines 209-216: Document.paginate_field.
doc_paginate_field(self, total) == ReturnPagination(resolve_total(self, total))

\* ------------------------------------------------------- query actions
NoInput == [q |-> EmptyQuery, msg |-> NONE, total |-> NoneV]
NoQuery == [op |-> "none", out |-> Return(NoDoc)]

\* queryset.get_or_404(_message_404=msg)
GetOr404 ==
    /\ qlast = NoQuery
    /\ qlast' = [op |-> "get_or_404", out |-> get_or_404(qin.q, qin.msg)]
    /\ UNCHANGED <<regvars, qin>>

\* queryset.first_or_404(_message_404=msg)
FirstOr404 ==
    /\ qlast = NoQuery
    /\ qlast' = [op |-> "first_or_404", out |-> first_or_404(qin.q, qin.msg)]
    /\ UNCHANGED <<regvars, qin>>

\* queryset.paginate_field(field_name, doc_id, page, per_page, total)
PaginateField ==
    /\ qlast = NoQuery
    /\ qlast' = [op |-> "paginate_field", out |-> paginate_field(qin.q, qin.total)]
    /\ UNCHANGED <<regvars, qin>>

\* document.paginate_field(field_name, page, per_page, total), on the
\* document the query set holds.
DocPaginateField ==
    /\ qlast = NoQuery
    /\ qin.q.err = "none" /\ Len(qin.q.docs) = 1
    /\ qlast' = [op |-> "doc.paginate_field",
                 out |-> doc_paginate_field(qin.q.docs[1], qin.total)]
    /\ UNCHANGED <<regvars, qin>>

RegInit ==
    /\ life = [e \in Exts |-> "new"]
    /\ ctor_config = [e \in Exts |-> NONE]
    /\ ext_app = [e \in Exts |-> NONE]
    /\ ext_config = [e \in Exts |-> NONE]
    /\ has_me = [a \in Apps |-> FALSE]
    /\ json_patched = [a \in Apps |-> FALSE]
    /\ registry = [a \in Apps |-> [e \in Exts |-> NoEntry]]
    /\ established = [a \in Apps |-> [e \in Exts |-> NoConn]]
    /\ nconn = 0
    /\ last = Call("none", NONE, NONE, "ok", NoConn)

\* The registrar after import, before any extension is constructed.
Init ==
    /\ RegInit
    /\ qin = NoInput
    /\ qlast = NoQuery

\* A query set and the arguments of one helper call on it.
QueryInit ==
    /\ RegInit
    /\ qin \in [q : Queries, msg : MsgArgs, total : TotalArgs]
    /\ qlast = NoQuery

Next ==
    \/ \E e \in Exts, a \in AppArgs, cfg \in CtorCfgArgs : Construct(e, a, cfg)
    \/ \E e \in Exts, a \in AppArgs, cfg \in CfgArgs : InitApp(e, a, cfg)
    \/ \E e \in Exts, cur \in Apps \cup {NONE} : Connection(e, cur)

Spec == Init /\ [][Next]_vars

QueryNext ==
    \/ GetOr404
    \/ FirstOr404
    \/ PaginateField
    \/ DocPaginateField

QuerySpec == QueryInit /\ [][QueryNext]_vars

\* ------------------------------------------------------ registrar claims
\* The step is a call ext.init_app(app, ...) of extension e on a.
InitAppStep(e, a) ==
    last'.op = "init_app" /\ last'.ext = e /\ last'.app = a

\* C1: init_app(app, config) of an extension already registered on app
\* raises ValueError whatever config is passed, and establishes no connection.
C1_DuplicateInitRejected ==
    [][\A e \in Exts, a \in Apps :
         (InitAppStep(e, a) /\ registry[a][e] # NoEntry)
            => /\ last'.result = "ValueError"
               /\ nconn' = nconn
               /\ established' = established
               /\ registry' = registry]_vars
C1_Witness ==
    /\ last.op = "init_app" /\ last.result = "ValueError"
    /\ last.app \in Apps /\ registry[last.app][last.ext] # NoEntry
    /\ nconn >= 1

\* The config the stated priority order resolves for init_app(a, cfg) of an
\* extension constructed with config ctor.
ExpectedConfig(cfg, ctor, a) ==
    IF CfgTruthy(cfg) THEN cfg ELSE IF CfgTruthy(ctor) THEN ctor ELSE AppConfig(a)

\* C2 (as stated): the config init_app(app, config) connects with is the
\* passed config, else the constructor's config, else the config of this app.
C2_ConfigPriority ==
    [][\A e \in Exts, a \in Apps, cfg \in CfgArgs :
         (InitApp(e, a, cfg) /\ last'.result = "ok")
            => established'[a][e].cfg = ExpectedConfig(cfg, ctor_config[e], a)]_vars

\* C3: initializing a second extension on an application that already holds
\* another extension is never rejected as a duplicate, adds an entry holding
\* this extension's own connection set, and leaves the other entries as they were.
C3_DistinctExtensionsCoexist ==
    [][\A e \in Exts, a \in Apps :
         (/\ InitAppStep(e, a)
          /\ registry[a][e] = NoEntry
          /\ \E x \in Exts \ {e} : registry[a][x] # NoEntry)
            => /\ last'.result \in {"ok", "StoreError"}
               /\ \A x \in Exts \ {e} : registry'[a][x] = registry[a][x]
               /\ last'.result = "ok" =>
                     /\ registry'[a][e] = [app |-> a, conn |-> established'[a][e]]
                     /\ established'[a][e] = [cfg |-> ext_config'[e]]]_vars
C3_Witness ==
    /\ last.op = "init_app" /\ last.result = "ok"
    /\ \A x \in Exts : registry[last.app][x] # NoEntry
    /\ \E x \in Exts : registry[last.app][x].conn # registry[last.app][last.ext].conn

\* C4: the connection read while application A is current is the connection
\* set established when this extension was initialized on A.
C4_ConnectionOfCurrentApp ==
    (/\ last.op = "connection" /\ last.app \in Apps
     /\ established[last.app][last.ext] # NoConn)
        => /\ last.result = "ok"
           /\ last.conn = established[last.app][last.ext]
C4_Witness ==
    /\ last.op = "connection" /\ last.result = "ok"
    /\ ext_app[last.ext] \in Apps \ {last.app}
    /\ established[ext_app[last.ext]][last.ext] \notin {NoConn, last.conn}

\* C8: init_app with a missing or non-Flask app raises TypeError and
\* changes nothing.
C8_InvalidAppRejected ==
    [][\A e \in Exts, a \in AppArgs \ Apps :
         InitAppStep(e, a)
            => /\ last'.result = "TypeError"
               /\ UNCHANGED <<ext_app, ext_config, has_me, json_patched,
                              registry, established, nconn>>]_vars
C8_Witness ==
    /\ last.op = "init_app" /\ last.result = "TypeError"
    /\ last.app = NotFlask
    /\ ext_app[last.ext] \in Apps /\ nconn >= 1

\* C9: a registry entry, once written, is never removed or overwritten, and
\* its "app" field is the application whose registry holds it.
C9_RegistryWriteOnce ==
    [][\A a \in Apps, e \in Exts :
         registry[a][e] # NoEntry
            => /\ registry'[a][e] = registry[a][e]
               /\ registry[a][e].app = a]_vars
C9_Witness ==
    /\ last.op = "init_app" /\ last.result \in {"ValueError", "StoreError"}
    /\ \A a \in Apps : \E e \in Exts : registry[a][e] # NoEntry
    /\ nconn >= 3

\* C10: when create_connections fails inside init_app the extension is not
\* registered on the app, and a later init_app on that app is not a duplicate.
C10_FailedConnectNotRegistered ==
    (last.op \in {"init_app", "__init__"} /\ last.result = "StoreError")
        => /\ registry[last.app][last.ext] = NoEntry
           /\ \A cfg \in CfgArgs :
                 init_app(State, last.ext, last.app, cfg, FALSE).result = "ok"
C10_Witness ==
    /\ last.op = "init_app" /\ last.result = "StoreError"
    /\ registry[last.app][last.ext] = NoEntry
    /\ has_me[last.app]
    /\ \E x \in Exts : registry[last.app][x] # NoEntry

\* ---------------------------------------------------------- query claims
\* C5: get_or_404 returns the document get returns, aborts with 404 when get
\* raises DoesNotExist, and lets every other error of get through unchanged.
C5_GetOr404Outcomes ==
    qlast.op = "get_or_404" =>
        LET g == QGet(qin.q)
        IN  /\ g.kind = "return" => qlast.out = Return(g.doc)
            /\ (g.kind = "raise" /\ g.exc = "DoesNotExist")
                   => qlast.out.kind = "abort404"
            /\ (g.kind = "raise" /\ g.exc # "DoesNotExist")
                   => qlast.out = Raise(g.exc)
C5_Witness ==
    /\ qlast.op = "get_or_404"
    /\ qlast.out = Raise("MultipleObjectsReturned")

\* The total the stated priority order resolves: the explicit total when one
\* is supplied, else the "<field>_count" attribute when it exists, else the
\* length of the list.
StatedTotal(item, total) ==
    IF total # NoneV THEN total
    ELSE IF item.count # MissingV THEN item.count
    ELSE IntV(item.len)

\* C6 (as stated): both paginate_field operations pass StatedTotal to the
\* list-field pagination.
C6_TotalPriority ==
    (qlast.op \in {"paginate_field", "doc.paginate_field"}
       /\ qlast.out.kind = "pagination")
        => qlast.out.total = StatedTotal(qin.q.docs[1], qin.total)

\* What first_or_404 does with the documents of the query.
FirstOr404Result ==
    (qlast.op = "first_or_404" /\ qin.q.err = "none") =>
        /\ Len(qin.q.docs) > 0 => qlast.out = Return(qin.q.docs[1])
        /\ Len(qin.q.docs) = 0 => qlast.out.kind = "abort404"

\* C7 (as stated): first_or_404 returns the first document or aborts with
\* 404, and the abort of either helper carries the message the caller
\* supplied, and none when none was supplied.
C7_AbortCarriesSuppliedMessage ==
    /\ FirstOr404Result
    /\ (qlast.op \in {"get_or_404", "first_or_404"} /\ qlast.out.kind = "abort404")
          => qlast.out.msg = qin.msg

\* C7 (amended): first_or_404 returns the first document or aborts with
\* 404, and the abort of either helper carries the caller's message when it
\* is a non-empty one, and no message when none or an empty one was supplied.
C7_AbortCarriesNonEmptyMessage ==
    /\ FirstOr404Result
    /\ (qlast.op \in {"get_or_404", "first_or_404"} /\ qlast.out.kind = "abort404")
          => qlast.out.msg = IF qin.msg \in {NONE, ""} THEN NONE ELSE qin.msg
C7_Witness ==
    /\ qlast.op = "first_or_404"
    /\ qlast.out = Abort("gone")
    /\ Len(qin.q.docs) = 0
====
